---- MODULE Spec2Model ----
(***************************************************************************)
(* Model of rigging/completion.py: the CompletionPipeline execution engine *)
(* (_process, _fit_params, run, run_many, run_batch, _watch_callback,      *)
(* _post_run).  One action per stretch of code between two awaits.         *)
(***************************************************************************)
EXTENDS Integers, Sequences, FiniteSets, TLC

(* ---------------------------------------------------------------------- *)
(* Bounds                                                                  *)
(* ---------------------------------------------------------------------- *)
MaxK == 2          \* largest number of requests of one run
MaxUntil == 2      \* largest number of registered Until validators
MaxRounds == 2     \* largest max_rounds given to an Until registration
MaxPost == 1       \* largest number of Map callbacks and of Then callbacks
MaxWatch == 1      \* largest number of Watch callbacks
MaxChain == 2      \* largest number of Map callbacks and of Then callbacks of a chain
MaxPipes == 2      \* largest number of pipeline objects alive at once
MaxOps == 3        \* largest number of builder calls made on the pipelines

(* ---------------------------------------------------------------------- *)
(* Values                                                                  *)
(* ---------------------------------------------------------------------- *)
\* Optional[T]: None is the empty tuple, a present value x is <<x>>.
None == <<>>
Some(x) == <<x>>

\* Texts are sequences of characters.
SeedText == <<"p">>
ItemChars == <<"x", "y", "z", "w", "v">>
Digits == <<"1", "2", "3", "4", "5", "6", "7", "8", "9">>

\* The text the backend returns for entry j of its c-th call.  The engine never
\* looks into a generated text, so the responses are taken pairwise distinct:
\* a response that reaches the wrong request or record is then always visible.
Chunk(c, j) == <<"g", Digits[c], Digits[j]>>

\* GenerateParams: a field is 0 when unset.
Fields == {"temperature", "max_tokens"}
GenerateParams == [f \in Fields |-> 0]
BaseParams == [temperature |-> 1, max_tokens |-> 1]
OverParams == [temperature |-> 2, max_tokens |-> 0]

\* base.merge_with(other): fields set in other win, the rest fall back to base.
merge_with(base, other) ==
  IF other = None THEN base
  ELSE [f \in Fields |-> IF other[1][f] # 0 THEN other[1][f] ELSE base[f]]

Modes == {"run", "run_many", "run_batch"}

(* ---------------------------------------------------------------------- *)
(* State                                                                   *)
(* ---------------------------------------------------------------------- *)
VARIABLES
  text,             \* CompletionPipeline.text
  params,           \* CompletionPipeline.params (Optional)
  until_callbacks,  \* list of (callback, use_all_text, max_rounds)
  then_callbacks,   \* list of Then callbacks
  map_callbacks,    \* list of Map callbacks
  watch_callbacks,  \* list of Watch callbacks
  mode,             \* which run method was called
  many,             \* run_batch: the input texts; run_many: count copies of None
  params_arg,       \* the params argument of the run (Optional list)
  skip_failed,
  include_failed,
  pc,               \* position of the run coroutine
  states,           \* list[RunState]
  pending_states,   \* indices into states, in order
  to_watch_states,  \* indices of the states being delivered to Watch
  completions,      \* the list inside _post_run
  post_idx,         \* index of the Map/Then callback being awaited
  result,           \* value returned by the run (Optional)
  error,            \* exception raised by the run ("" when none)
  uuid,             \* number of Completion objects created so far
  calls,            \* backend calls issued, each a list of (request, text, params)
  inbound,          \* per request: the last text the backend returned for it
  verdicts,         \* per request: what each validator returned in its last round
  watch_log,        \* arguments of the _watch_callback invocations
  post_log,         \* invocations of Map and Then callbacks
  post_ret,         \* what the last Map or Then invocation returned (Optional)
  pipes,            \* the CompletionPipeline objects built so far, by identity
  lists,            \* the watch_callbacks list objects, by identity
  op,               \* the last builder call: name, self, returned pipeline (Optional)
  nops,             \* number of builder calls made
  other             \* the local state of a second run of the pipeline, suspended (Optional)

vars == <<text, params, until_callbacks, then_callbacks, map_callbacks,
          watch_callbacks, mode, many, params_arg, skip_failed, include_failed,
          pc, states, pending_states, to_watch_states, completions, post_idx, result, error,
          uuid, calls, inbound, verdicts, watch_log, post_log, post_ret,
          pipes, lists, op, nops, other>>

registry == <<pipes, lists, op, nops>>
config == <<text, params, until_callbacks, then_callbacks, map_callbacks,
            watch_callbacks, registry, other>>
args == <<mode, many, params_arg, skip_failed, include_failed>>

K == Len(many)

(* ---------------------------------------------------------------------- *)
(* _process: the retry generator of one request                            *)
(* ---------------------------------------------------------------------- *)
RECURSIVE MinRounds(_)
MinRounds(cbs) ==
  IF Len(cbs) = 1 THEN cbs[1].max_rounds
  ELSE LET rest == MinRounds(Tail(cbs))
       IN IF cbs[1].max_rounds < rest THEN cbs[1].max_rounds ELSE rest

\* min((c[2] for c in self.until_callbacks), default=1)
lowest_max_rounds == IF until_callbacks = <<>> THEN 1 ELSE MinRounds(until_callbacks)

\* The generator object: pos is where it is suspended or how it ended.
\*   "yield_plain": at the yield of the no-validator branch
\*   "yield":       at the yield inside the while loop
\*   "returned":    StopIteration, value in generated
\*   "exhausted":   CompletionExhaustedMaxRoundsError, completion in generated
\*   "unbound":     UnboundLocalError (generated read before assignment)
Processor(pos, round, retry, generated) ==
  [pos |-> pos, current_round |-> round, should_retry |-> retry, generated |-> generated]

\* the round counter is incremented after the yield instead of before it
process_next_uncounted ==
  IF until_callbacks = <<>> THEN Processor("yield_plain", 0, FALSE, None)
  ELSE IF 0 < lowest_max_rounds THEN Processor("yield", 0, TRUE, None)
  ELSE Processor("unbound", 0, TRUE, None)

\* next(state.processor): run _process up to its first yield.
process_next ==
  IF until_callbacks = <<>> THEN Processor("yield_plain", 0, FALSE, None)
  ELSE IF 0 < lowest_max_rounds THEN Processor("yield", 1, TRUE, None)
  ELSE Processor("unbound", 0, TRUE, None)

\* The argument a validator receives.
until_arg(cb, generated) == IF cb.use_all_text THEN text \o generated ELSE generated

\* for callback, use_all_text, _ in self.until_callbacks:
\*     should_retry = callback(...); if should_retry: continue
\* vs[j] is what the j-th callback returns.
RECURSIVE until_loop(_, _, _)
until_loop(j, should_retry, vs) ==
  IF j > Len(until_callbacks) THEN should_retry
  ELSE until_loop(j + 1, vs[j], vs)

\* process_send with the loop test off by one: current_round <= lowest_max_rounds
process_send_late(p, chunk, vs) ==
  IF p.pos = "yield_plain" THEN Processor("returned", 0, FALSE, Some(chunk))
  ELSE LET retry == until_loop(1, p.should_retry, vs)
       IN IF retry /\ p.current_round <= lowest_max_rounds
            THEN Processor("yield", p.current_round + 1, retry, Some(chunk))
          ELSE IF retry
            THEN Processor("exhausted", p.current_round, retry, Some(chunk))
          ELSE Processor("returned", p.current_round, retry, Some(chunk))

\* process_send returning the prompt with the generated text
process_send_all(p, chunk, vs) ==
  IF p.pos = "yield_plain" THEN Processor("returned", 0, FALSE, Some(text \o chunk))
  ELSE LET retry == until_loop(1, p.should_retry, vs)
       IN IF retry /\ p.current_round < lowest_max_rounds
            THEN Processor("yield", p.current_round + 1, retry, Some(chunk))
          ELSE IF retry
            THEN Processor("exhausted", p.current_round, retry, Some(chunk))
          ELSE Processor("returned", p.current_round, retry, Some(chunk))

\* state.processor.send(inbound.text)
process_send(p, chunk, vs) ==
  IF p.pos = "yield_plain" THEN Processor("returned", 0, FALSE, Some(chunk))
  ELSE LET retry == until_loop(1, p.should_retry, vs)
       IN IF retry /\ p.current_round < lowest_max_rounds
            THEN Processor("yield", p.current_round + 1, retry, Some(chunk))
          ELSE IF retry
            THEN Processor("exhausted", p.current_round, retry, Some(chunk))
          ELSE Processor("returned", p.current_round, retry, Some(chunk))

(* ---------------------------------------------------------------------- *)
(* _fit_params                                                             *)
(* ---------------------------------------------------------------------- *)
\* params = [None] * count if params is None else list(params)
fit_list(count, ps) == IF ps = None THEN [i \in 1..count |-> None] ELSE ps[1]

\* only a list that is too long is refused
fit_mismatch_longer(count, ps) == Len(fit_list(count, ps)) > count

\* raise ValueError when len(params) != count
fit_mismatch(count, ps) == Len(fit_list(count, ps)) # count

_fit_params(count, ps) ==
  LET l == fit_list(count, ps)
      merged == IF params # None
                  THEN [i \in 1..Len(l) |-> Some(merge_with(params[1], l[i]))]
                  ELSE l
  IN [i \in 1..Len(l) |-> IF merged[i] # None THEN merged[i][1] ELSE GenerateParams]

(* ---------------------------------------------------------------------- *)
(* Records                                                                 *)
(* ---------------------------------------------------------------------- *)
Completion(id, txt, generated, ps, failed) ==
  [uuid |-> id, text |-> txt, generated |-> generated, params |-> ps, failed |-> failed]

RunState(txt, ps, proc) ==
  [text |-> txt, params |-> ps, processor |-> proc, completion |-> None, watched |-> FALSE]

\* Completion.__len__
completion_len(c) == Len(c.text) + Len(c.generated)

(* ---------------------------------------------------------------------- *)
(* run_many / run_batch                                                    *)
(* ---------------------------------------------------------------------- *)
\* The text submitted to the backend for one state.
submit_text(s) == IF mode = "run_batch" THEN text \o s.text ELSE s.text

\* every state is submitted again, whether pending or not
requests_all(sts, pend) ==
  [i \in 1..Len(sts) |->
     [request |-> i, text |-> submit_text(sts[i]), params |-> sts[i].params]]

\* The arguments of generate_texts for the pending states.
requests(sts, pend) ==
  [j \in 1..Len(pend) |->
     [request |-> pend[j], text |-> submit_text(sts[pend[j]]), params |-> sts[pend[j]].params]]

\* exhaustion is raised whatever the flags are
route_step_abort(j, acc, chunk, v) ==
  LET i == pending_states[j]
      state == acc.states[i]
      p == process_send(state.processor, chunk, v)
      seen == [acc EXCEPT !.states[i].processor = p, !.verdicts[i] = Some(v)]
  IN IF p.pos = "returned" THEN
       [seen EXCEPT !.states[i].completion =
                      Some(Completion(acc.uuid + 1, text, p.generated[1], state.params, FALSE)),
                    !.uuid = acc.uuid + 1]
     ELSE IF p.pos = "exhausted" THEN [seen EXCEPT !.raised = TRUE]
     ELSE seen

\* the record of an exhausted request is created like that of a finished one
route_step_unmarked(j, acc, chunk, v) ==
  LET i == pending_states[j]
      state == acc.states[i]
      p == process_send(state.processor, chunk, v)
      seen == [acc EXCEPT !.states[i].processor = p, !.verdicts[i] = Some(v)]
  IN IF p.pos = "returned" \/ (p.pos = "exhausted" /\ (skip_failed \/ include_failed)) THEN
       [seen EXCEPT !.states[i].completion =
                      Some(Completion(acc.uuid + 1, text, p.generated[1], state.params, FALSE)),
                    !.uuid = acc.uuid + 1]
     ELSE IF p.pos = "exhausted" THEN [seen EXCEPT !.raised = TRUE]
     ELSE seen

\* One iteration of "for inbound, state in zip(inbounds, pending_states)":
\* send the response to the processor of the j-th pending state, whose validators
\* return v, and handle StopIteration and CompletionExhaustedMaxRoundsError.
\* acc carries the states, the Completion counter and whether the loop raised.
route_step(j, acc, chunk, v) ==
  LET i == pending_states[j]
      state == acc.states[i]
      p == process_send(state.processor, chunk, v)
      seen == [acc EXCEPT !.states[i].processor = p, !.verdicts[i] = Some(v)]
  IN IF p.pos = "returned" THEN
       [seen EXCEPT !.states[i].completion =
                      Some(Completion(acc.uuid + 1, text, p.generated[1], state.params, FALSE)),
                    !.uuid = acc.uuid + 1]
     ELSE IF p.pos = "exhausted" THEN
       IF ~skip_failed /\ ~include_failed THEN [seen EXCEPT !.raised = TRUE]
       ELSE [seen EXCEPT !.states[i].completion =
                      Some(Completion(acc.uuid + 1, text, p.generated[1], state.params, TRUE)),
                    !.uuid = acc.uuid + 1]
     ELSE seen

\* The whole for loop from entry j on: the set of its outcomes over everything
\* the validators may return.  The loop ends with the shorter list or on a raise.
RECURSIVE route(_, _, _)
route(j, acc, inbounds) ==
  IF j > Len(pending_states) \/ j > Len(inbounds) \/ acc.raised THEN {acc}
  ELSE UNION {route(j + 1, route_step(j, acc, inbounds[j], v), inbounds) :
                v \in [1..Len(until_callbacks) -> BOOLEAN]}

\* pending_states = [s for s in pending_states if s.completion is None]
still_pending(sts, pend) == SelectSeq(pend, LAMBDA i : sts[i].completion = None)

\* nothing is delivered while a request is pending
to_watch_last(sts) ==
  IF \E i \in 1..Len(sts) : sts[i].completion = None THEN <<>>
  ELSE SelectSeq([i \in 1..Len(sts) |-> i], LAMBDA i : ~sts[i].watched)

\* the newly finished states, last input position first
to_watch_reversed(sts) ==
  LET fresh == SelectSeq([i \in 1..Len(sts) |-> i],
                 LAMBDA i : sts[i].completion # None /\ ~sts[i].watched)
  IN [j \in 1..Len(fresh) |-> fresh[Len(fresh) + 1 - j]]

\* to_watch_states = [s for s in states if s.completion is not None and not s.watched]
to_watch(sts) ==
  SelectSeq([i \in 1..Len(sts) |-> i],
            LAMBDA i : sts[i].completion # None /\ ~sts[i].watched)

\* the failed records are moved behind the others instead of being dropped
collect_failed_last(sts) ==
  LET made == SelectSeq([i \in 1..Len(sts) |-> i], LAMBDA i : sts[i].completion # None)
      good == SelectSeq(made, LAMBDA i : ~sts[i].completion[1].failed)
      bad == SelectSeq(made, LAMBDA i : sts[i].completion[1].failed)
  IN [j \in 1..Len(good) |-> sts[good[j]].completion[1]]
       \o [j \in 1..Len(bad) |-> sts[bad[j]].completion[1]]

\* collect in the order in which the records were created
collect_by_finish(sts) ==
  LET kept == {i \in 1..Len(sts) : /\ sts[i].completion # None
                                    /\ (skip_failed => ~sts[i].completion[1].failed)}
      rank(i) == Cardinality({k \in kept : sts[k].completion[1].uuid <= sts[i].completion[1].uuid})
  IN [j \in 1..Cardinality(kept) |-> sts[CHOOSE i \in kept : rank(i) = j].completion[1]]

\* collect without the skip_failed filter
collect_all(sts) ==
  LET kept == SelectSeq([i \in 1..Len(sts) |-> i], LAMBDA i : sts[i].completion # None)
  IN [j \in 1..Len(kept) |-> sts[kept[j]].completion[1]]

\* the list handed to _post_run
collect(sts) ==
  LET kept == SelectSeq([i \in 1..Len(sts) |-> i],
                LAMBDA i : /\ sts[i].completion # None
                           /\ (skip_failed => ~sts[i].completion[1].failed))
  IN [j \in 1..Len(kept) |-> sts[kept[j]].completion[1]]

\* return of run_many / run_batch, and chats[0] of run
Finish(list) ==
  IF mode = "run" /\ list = <<>>
    THEN pc' = "raised" /\ error' = "IndexError" /\ result' = None
  ELSE /\ pc' = "returned"
       /\ error' = error
       /\ result' = IF mode = "run" THEN Some(list[1]) ELSE Some(list)

\* _post_run, Then loop from callback n on: invoke it on every record and await
StartThen(list, n) ==
  IF n <= Len(then_callbacks)
    THEN /\ pc' = "then"
         /\ post_idx' = n
         /\ completions' = list
         /\ post_log' = Append(post_log, [kind |-> "then", cb |-> then_callbacks[n], arg |-> list])
         /\ UNCHANGED <<result, error>>
  ELSE /\ Finish(list)
       /\ completions' = list
       /\ UNCHANGED <<post_idx, post_log>>

\* every Map callback after the first is handed what its predecessor was handed
StartMap_stale(list, m) ==
  IF m <= Len(map_callbacks)
    THEN /\ pc' = "map"
         /\ post_idx' = m
         /\ completions' = (IF m = 1 THEN list ELSE completions)
         /\ post_log' = Append(post_log, [kind |-> "map", cb |-> map_callbacks[m],
                                          arg |-> IF m = 1 THEN list ELSE completions])
         /\ UNCHANGED <<result, error>>
  ELSE StartThen(list, 1)

\* _post_run, Map loop from callback m on: invoke it on the list and await
StartMap(list, m) ==
  IF m <= Len(map_callbacks)
    THEN /\ pc' = "map"
         /\ post_idx' = m
         /\ completions' = list
         /\ post_log' = Append(post_log, [kind |-> "map", cb |-> map_callbacks[m], arg |-> list])
         /\ UNCHANGED <<result, error>>
  ELSE StartThen(list, 1)

\* while pending_states: issue the next backend call, else leave the loop
LoopTop(sts, pend) ==
  IF pend # <<>>
    THEN /\ calls' = Append(calls, requests(sts, pend))
         /\ pc' = "generate"
         /\ UNCHANGED <<completions, post_idx, post_log, result, error>>
  ELSE /\ calls' = calls
       /\ StartMap(collect(sts), 1)

\* the flag check left out
flags_conflict_off == FALSE

\* if skip_failed and include_failed: raise ValueError
flags_conflict == skip_failed /\ include_failed

\* states = [RunState(self.text, p, self._process()) for p in self._fit_params(count, params)]
\* states = [RunState(m, p, self._process()) for m, p in zip(many, params)]
new_states(ps) ==
  [i \in 1..(IF mode = "run_batch" /\ K < Len(ps) THEN K ELSE Len(ps)) |->
     RunState(IF mode = "run_batch" THEN many[i] ELSE text, ps[i], process_next)]

\* Entry of run / run_many / run_batch up to the first await.
Start ==
  /\ pc = "init"
  /\ UNCHANGED post_ret
  /\ UNCHANGED <<config, args, to_watch_states, uuid, inbound, verdicts, watch_log>>
  /\ IF flags_conflict THEN
       /\ pc' = "raised" /\ error' = "ValueError"
       /\ UNCHANGED <<states, pending_states, completions, post_idx, result, calls, post_log>>
     ELSE IF fit_mismatch(K, params_arg) THEN
       /\ pc' = "raised" /\ error' = "ValueError"
       /\ UNCHANGED <<states, pending_states, completions, post_idx, result, calls, post_log>>
     ELSE
       LET sts == new_states(_fit_params(K, params_arg))
       IN IF sts # <<>> /\ process_next.pos = "unbound" THEN
            /\ pc' = "raised" /\ error' = "UnboundLocalError"
            /\ UNCHANGED <<states, pending_states, completions, post_idx, result, calls, post_log>>
          ELSE
            /\ states' = sts
            /\ pending_states' = [i \in 1..Len(sts) |-> i]
            /\ LoopTop(sts, [i \in 1..Len(sts) |-> i])

\* generate_texts returns one response per pending request; the for loop routes
\* them, the pending list shrinks and _watch_callback is invoked.
BackendReturn ==
  /\ pc = "generate"
  /\ UNCHANGED post_ret
  /\ LET inbounds == [j \in 1..Len(pending_states) |-> Chunk(Len(calls), j)]
     IN \E acc \in route(1, [states |-> states, raised |-> FALSE, uuid |-> uuid,
                              verdicts |-> verdicts], inbounds) :
          /\ inbound' = [i \in 1..K |->
                           IF \E j \in 1..Len(pending_states) : pending_states[j] = i
                             THEN Some(inbounds[CHOOSE j \in 1..Len(pending_states) :
                                                  pending_states[j] = i])
                           ELSE inbound[i]]
          /\ states' = acc.states
          /\ uuid' = acc.uuid
          /\ verdicts' = acc.verdicts
          /\ IF acc.raised THEN
               /\ pc' = "raised" /\ error' = "CompletionExhaustedMaxRoundsError"
               /\ UNCHANGED <<pending_states, to_watch_states, watch_log>>
             ELSE
               /\ pc' = "watch" /\ error' = error
               /\ pending_states' = still_pending(acc.states, pending_states)
               /\ to_watch_states' = to_watch(acc.states)
               /\ watch_log' = Append(watch_log,
                    [j \in 1..Len(to_watch(acc.states)) |->
                       acc.states[to_watch(acc.states)[j]].completion[1]])
  /\ UNCHANGED <<config, args, completions, post_idx, result, calls, post_log>>

\* the failed call is issued once more
BackendRaise_retry ==
  /\ pc = "generate"
  /\ UNCHANGED post_ret
  /\ error' = "BackendError"
  /\ IF error = "" THEN pc' = "generate" /\ calls' = Append(calls, calls[Len(calls)])
     ELSE pc' = "raised" /\ calls' = calls
  /\ UNCHANGED <<config, args, states, pending_states, to_watch_states, completions,
                 post_idx, result, uuid, inbound, verdicts, watch_log, post_log>>

\* generate_texts raises: nothing catches it.
BackendRaise ==
  /\ pc = "generate"
  /\ UNCHANGED post_ret
  /\ pc' = "raised" /\ error' = "BackendError"
  /\ UNCHANGED <<config, args, states, pending_states, to_watch_states, completions,
                 post_idx, result, uuid, calls, inbound, verdicts, watch_log, post_log>>

\* _watch_callback returns: mark the delivered states, go round the loop.
WatchReturn ==
  /\ pc = "watch"
  /\ UNCHANGED post_ret
  /\ states' = [i \in 1..Len(states) |->
                  IF \E j \in 1..Len(to_watch_states) : to_watch_states[j] = i
                    THEN [states[i] EXCEPT !.watched = TRUE] ELSE states[i]]
  /\ LoopTop(states', pending_states)
  /\ UNCHANGED <<config, args, pending_states, to_watch_states, uuid, inbound,
                 verdicts, watch_log>>

(* ---------------------------------------------------------------------- *)
(* _post_run                                                               *)
(* ---------------------------------------------------------------------- *)
\* What a Map callback may return for a list: it may keep, remove, add or reorder.
MapResults(list) ==
  {list}
    \cup (IF list = <<>> THEN {}
          ELSE {Tail(list), Tail(list) \o <<list[1]>>, list \o <<list[1]>>})

\* completions = await map_callback(completions)
MapReturn ==
  /\ pc = "map"
  /\ \E out \in MapResults(completions) :
       /\ StartMap(out, post_idx + 1)
       /\ post_ret' = Some([kind |-> "map", cb |-> map_callbacks[post_idx], ret |-> out])
  /\ UNCHANGED <<config, args, states, pending_states, to_watch_states, uuid, calls,
                 inbound, verdicts, watch_log>>

\* What a Then callback may return for a record: nothing, a changed record, or a
\* record whose text and generated text are both empty.
ThenKinds == {"nothing", "changed", "empty"}

ThenResult(c, kind) ==
  IF kind = "nothing" THEN None
  ELSE IF kind = "changed" THEN Some([c EXCEPT !.generated = <<"r">>])
  ELSE Some([c EXCEPT !.text = <<>>, !.generated = <<>>])

\* completions = [new or chat for new, chat in zip(new_completions, completions)]
new_or_chat(new, chat) ==
  IF new # None /\ completion_len(new[1]) # 0 THEN new[1] ELSE chat

\* What the invocations of one Then callback return for a list of n records: the
\* callback answers every record alike, or it answers for one record only.
ThenReturns(n) ==
  {[i \in 1..n |-> k] : k \in ThenKinds}
    \cup {[i \in 1..n |-> IF i = j THEN k ELSE "nothing"] : j \in 1..n, k \in ThenKinds}

ThenReturn ==
  /\ pc = "then"
  /\ \E kinds \in ThenReturns(Len(completions)) :
       LET new_completions == [i \in 1..Len(completions) |->
                                 ThenResult(completions[i], kinds[i])]
       IN /\ StartThen([i \in 1..Len(completions) |->
                         new_or_chat(new_completions[i], completions[i])],
                      post_idx + 1)
          /\ post_ret' = Some([kind |-> "then", cb |-> then_callbacks[post_idx],
                               ret |-> new_completions])
  /\ UNCHANGED <<config, args, states, pending_states, to_watch_states, uuid, calls,
                 inbound, verdicts, watch_log>>

\* The invocations of the awaited Then callback, one per record, as
\* asyncio.gather holds them: ret[i] is known once i is in done.
gathering ==
  IF post_ret # None /\ post_ret[1].kind = "then" /\ post_ret[1].idx = post_idx
    THEN post_ret[1]
  ELSE [kind |-> "then", cb |-> then_callbacks[post_idx], idx |-> post_idx,
        ret |-> [i \in 1..Len(completions) |-> None], done |-> {}]

\* the list is rebuilt as soon as one invocation has returned
ThenInvocationReturn_first ==
  /\ pc = "then"
  /\ \E i \in (1..Len(completions)) \ gathering.done, kind \in ThenKinds :
       LET new == [gathering EXCEPT !.ret[i] = ThenResult(completions[i], kind),
                                    !.done = @ \cup {i}]
       IN /\ post_ret' = Some(new)
          /\ StartThen([k \in 1..Len(completions) |->
                          new_or_chat(new.ret[k], completions[k])],
                       post_idx + 1)
  /\ UNCHANGED <<config, args, states, pending_states, to_watch_states, uuid, calls,
                 inbound, verdicts, watch_log>>

\* The same await seen one invocation at a time: an invocation of the awaited
\* Then callback returns; when it is the last one (or the list is empty)
\* asyncio.gather returns and the list is rebuilt.
ThenInvocationReturn ==
  /\ pc = "then"
  /\ \/ /\ completions = <<>>
        /\ post_ret' = Some(gathering)
        /\ StartThen(<<>>, post_idx + 1)
     \/ \E i \in (1..Len(completions)) \ gathering.done, kind \in ThenKinds :
          LET new == [gathering EXCEPT !.ret[i] = ThenResult(completions[i], kind),
                                       !.done = @ \cup {i}]
          IN /\ post_ret' = Some(new)
             /\ IF new.done = 1..Len(completions)
                  THEN StartThen([k \in 1..Len(completions) |->
                                    new_or_chat(new.ret[k], completions[k])],
                                 post_idx + 1)
                ELSE UNCHANGED <<pc, post_idx, completions, post_log, result, error>>
  /\ UNCHANGED <<config, args, states, pending_states, to_watch_states, uuid, calls,
                 inbound, verdicts, watch_log>>

(* ---------------------------------------------------------------------- *)
(* Specifications                                                          *)
(* ---------------------------------------------------------------------- *)
\* Until registrations: callback j, use_all_text on the even ones.
UntilLists(maxlen) ==
  UNION {[1..n -> 0..MaxRounds] : n \in 0..maxlen}

Until(rounds) ==
  [j \in 1..Len(rounds) |->
     [callback |-> j, use_all_text |-> (j % 2 = 0), max_rounds |-> rounds[j]]]

\* The overlay list of length n: None at odd positions, OverParams at even ones.
Overlay(n) == [i \in 1..n |-> IF i % 2 = 1 THEN None ELSE Some(OverParams)]

Callbacks(n) == [j \in 1..n |-> j]

InitRun ==
  /\ pc = "init"
  /\ states = <<>> /\ pending_states = <<>> /\ to_watch_states = <<>>
  /\ completions = <<>> /\ post_idx = 0
  /\ result = None /\ error = ""
  /\ uuid = 0 /\ calls = <<>>
  /\ inbound = [i \in 1..K |-> None]
  /\ verdicts = [i \in 1..K |-> None]
  /\ watch_log = <<>> /\ post_log = <<>> /\ post_ret = None

\* A run builds no pipeline.
NoBuild == pipes = <<>> /\ lists = <<>> /\ op = None /\ nops = 0

\* No second run of the pipeline is in progress.
Alone == other = None

\* The call: run(allow_failed), run_many(count, ...) or run_batch(many, ...).
InitArgs ==
  /\ mode \in Modes
  /\ \E n \in 1..MaxK :
       many = IF mode = "run" THEN <<None>>
              ELSE IF mode = "run_many" THEN [i \in 1..n |-> None]
              ELSE [i \in 1..n |-> <<ItemChars[i]>>]
  /\ include_failed \in BOOLEAN
  /\ skip_failed \in IF mode = "run" THEN {FALSE} ELSE BOOLEAN

\* The retry engine: every Until configuration, no overlay, no Map or Then.
Init ==
  /\ text = SeedText
  /\ params = None
  /\ until_callbacks \in {Until(r) : r \in UntilLists(MaxUntil)}
  /\ then_callbacks = <<>>
  /\ map_callbacks = <<>>
  /\ watch_callbacks = Callbacks(MaxWatch)
  /\ InitArgs
  /\ params_arg = None
  /\ InitRun
  /\ Alone
  /\ NoBuild

Next ==
  \/ Start
  \/ BackendReturn
  \/ BackendRaise
  \/ WatchReturn

Spec == Init /\ [][Next]_vars

\* The engine under parameter overlays of every length, with at most one Until
\* validator and any number of Watch callbacks.
InitOverlayArg == params_arg \in IF mode = "run" THEN {None}
                           ELSE {None} \cup {Some(Overlay(n)) : n \in 0..(MaxK + 1)}

InitOverlay ==
  /\ text = SeedText
  /\ params \in {None, Some(BaseParams)}
  /\ until_callbacks \in {<<>>, Until(<<MaxRounds>>)}
  /\ then_callbacks = <<>>
  /\ map_callbacks = <<>>
  /\ watch_callbacks \in {Callbacks(n) : n \in 0..MaxWatch}
  /\ InitArgs
  /\ InitOverlayArg
  /\ InitRun
  /\ Alone
  /\ NoBuild

SpecOverlay == InitOverlay /\ [][Next]_vars

\* The engine with Map and Then callbacks registered, with at most one Until
\* validator.
InitPost ==
  /\ text = SeedText
  /\ params = None
  /\ until_callbacks \in {<<>>, Until(<<MaxRounds>>)}
  /\ then_callbacks \in {Callbacks(n) : n \in 0..MaxPost}
  /\ map_callbacks \in {Callbacks(n) : n \in 0..MaxPost}
  /\ watch_callbacks = Callbacks(MaxWatch)
  /\ InitArgs
  /\ params_arg = None
  /\ InitRun
  /\ Alone
  /\ NoBuild

NextPost ==
  \/ Next
  \/ MapReturn
  \/ ThenReturn

SpecPost == InitPost /\ [][NextPost]_vars

\* The post-processing chain on its own: no Until validator, so every request
\* finishes in round one, and up to MaxChain Map callbacks and Then callbacks.
InitChain ==
  /\ text = SeedText
  /\ params = None
  /\ until_callbacks = <<>>
  /\ then_callbacks \in {Callbacks(n) : n \in 0..MaxChain}
  /\ map_callbacks \in {Callbacks(n) : n \in 0..MaxChain}
  /\ watch_callbacks = Callbacks(MaxWatch)
  /\ mode \in Modes
  /\ \E n \in 1..MaxK :
       many = IF mode = "run" THEN <<None>>
              ELSE IF mode = "run_many" THEN [i \in 1..n |-> None]
              ELSE [i \in 1..n |-> <<ItemChars[i]>>]
  /\ include_failed = FALSE /\ skip_failed = FALSE
  /\ params_arg = None
  /\ InitRun
  /\ Alone
  /\ NoBuild

SpecChain == InitChain /\ [][NextPost]_vars

\* The Then stages one invocation at a time: no Until validator, no Map
\* callback, one to MaxChain Then callbacks.
InitThen ==
  /\ text = SeedText
  /\ params = None
  /\ until_callbacks = <<>>
  /\ then_callbacks \in {Callbacks(n) : n \in 1..MaxChain}
  /\ map_callbacks = <<>>
  /\ watch_callbacks = Callbacks(MaxWatch)
  /\ mode \in Modes
  /\ \E n \in 1..MaxK :
       many = IF mode = "run" THEN <<None>>
              ELSE IF mode = "run_many" THEN [i \in 1..n |-> None]
              ELSE [i \in 1..n |-> <<ItemChars[i]>>]
  /\ include_failed = FALSE /\ skip_failed = FALSE
  /\ params_arg = None
  /\ InitRun
  /\ Alone
  /\ NoBuild

NextThen ==
  \/ Next
  \/ ThenInvocationReturn

SpecThen == InitThen /\ [][NextThen]_vars

\* The local variables of the run in progress.
locals ==
  [pc |-> pc, states |-> states, pending_states |-> pending_states,
   to_watch_states |-> to_watch_states, completions |-> completions,
   post_idx |-> post_idx, result |-> result, error |-> error, uuid |-> uuid,
   calls |-> calls,
   inbound |-> inbound, verdicts |-> verdicts, watch_log |-> watch_log,
   post_log |-> post_log, post_ret |-> post_ret]

\* the list of Run States is kept on the pipeline instead of in the run
Switch_shared_states ==
  /\ other # None
  /\ other' = Some(locals)
  /\ pc' = other[1].pc
  /\ states' = states
  /\ pending_states' = other[1].pending_states
  /\ to_watch_states' = other[1].to_watch_states
  /\ completions' = other[1].completions
  /\ post_idx' = other[1].post_idx
  /\ result' = other[1].result
  /\ error' = other[1].error
  /\ uuid' = other[1].uuid
  /\ calls' = other[1].calls
  /\ inbound' = other[1].inbound
  /\ verdicts' = other[1].verdicts
  /\ watch_log' = other[1].watch_log
  /\ post_log' = other[1].post_log
  /\ post_ret' = other[1].post_ret
  /\ UNCHANGED <<text, params, until_callbacks, then_callbacks, map_callbacks,
                 watch_callbacks, registry, args>>

\* The event loop resumes the other run of the pipeline: the run in progress is
\* suspended at its await (or has not started, or is over) with its local
\* variables, and the other run's local variables are the current ones.  The
\* pipeline object is the same for both.
Switch ==
  /\ other # None
  /\ other' = Some(locals)
  /\ pc' = other[1].pc
  /\ states' = other[1].states
  /\ pending_states' = other[1].pending_states
  /\ to_watch_states' = other[1].to_watch_states
  /\ completions' = other[1].completions
  /\ post_idx' = other[1].post_idx
  /\ result' = other[1].result
  /\ error' = other[1].error
  /\ uuid' = other[1].uuid
  /\ calls' = other[1].calls
  /\ inbound' = other[1].inbound
  /\ verdicts' = other[1].verdicts
  /\ watch_log' = other[1].watch_log
  /\ post_log' = other[1].post_log
  /\ post_ret' = other[1].post_ret
  /\ UNCHANGED <<text, params, until_callbacks, then_callbacks, map_callbacks,
                 watch_callbacks, registry, args>>

\* Two runs of one pipeline, made with the same arguments and no failure flag,
\* interleaved at their awaits: at most one Until validator and one Then callback.
InitPair ==
  /\ text = SeedText
  /\ params = None
  /\ until_callbacks \in {<<>>, Until(<<MaxRounds>>)}
  /\ then_callbacks \in {<<>>, Callbacks(1)}
  /\ map_callbacks = <<>>
  /\ watch_callbacks = Callbacks(MaxWatch)
  /\ mode \in Modes
  /\ \E n \in 1..MaxK :
       many = IF mode = "run" THEN <<None>>
              ELSE IF mode = "run_many" THEN [i \in 1..n |-> None]
              ELSE [i \in 1..n |-> <<ItemChars[i]>>]
  /\ include_failed = FALSE /\ skip_failed = FALSE
  /\ params_arg = None
  /\ InitRun
  /\ NoBuild
  /\ other = Some(locals)

NextPair ==
  \/ Next
  \/ ThenReturn
  \/ Switch

SpecPair == InitPair /\ [][NextPair]_vars

\* The engine with Map and Then callbacks when every backend call and every
\* callback that is awaited returns or raises: a run that can take a step
\* eventually takes one.
SpecLive == SpecPost /\ WF_vars(NextPost)

(* ---------------------------------------------------------------------- *)
(* Building pipelines: __init__, with_, watch, then, map, add, fork, clone, *)
(* meta, apply, until, until_parsed_as                                     *)
(* ---------------------------------------------------------------------- *)
\* An Until callback is a plain function or the bound method
\* pipeline._until_parse_callback of the pipeline object p.
PlainCallback(k) == <<"callback", k>>
ParseCallback(p) == <<"_until_parse_callback", p>>

\* The objects: h.pipes and h.lists are indexed by identity, h.ret is the
\* pipeline a call returns.
Heap == [pipes |-> pipes, lists |-> lists, ret |-> 0]

\* CompletionPipeline.__init__: watch_arg is an Optional reference to a list.
\* "watch_callbacks or []" keeps the list object that was passed unless it is empty.
__init__(h, txt, ps, watch_arg) ==
  LET fresh == watch_arg = None \/ h.lists[watch_arg[1]] = <<>>
      ls == IF fresh THEN Append(h.lists, <<>>) ELSE h.lists
      ref == IF fresh THEN Len(ls) ELSE watch_arg[1]
  IN [pipes |-> Append(h.pipes,
                  [text |-> txt, params |-> ps, metadata |-> {},
                   until_callbacks |-> <<>>, until_types |-> <<>>,
                   then_callbacks |-> <<>>, map_callbacks |-> <<>>,
                   watch_callbacks |-> ref]),
      lists |-> ls,
      ret |-> Len(h.pipes) + 1]

\* clone: the new pipeline is constructed with self.watch_callbacks, the other
\* lists and the metadata are copied, the params are model_copy()'d.
clone(h, p, only_text) ==
  LET self == h.pipes[p]
      made == __init__(h, self.text, self.params, Some(self.watch_callbacks))
      new == made.ret
  IN IF only_text THEN made
     ELSE [made EXCEPT !.pipes[new].until_callbacks = self.until_callbacks,
                       !.pipes[new].until_types = self.until_types,
                       !.pipes[new].metadata = self.metadata,
                       !.pipes[new].then_callbacks = self.then_callbacks,
                       !.pipes[new].map_callbacks = self.map_callbacks]

\* self.text += text
add(h, p, txt) == [h EXCEPT !.pipes[p].text = @ \o txt, !.ret = p]

\* clone().add(text)
fork(h, p, txt) == LET c == clone(h, p, FALSE) IN add(c, c.ret, txt)

\* string.Template(text).safe_substitute(key=value): a text is a sequence of
\* tokens, the token "$key" is the placeholder of key.
safe_substitute(txt, key, value) ==
  [i \in 1..Len(txt) |-> IF txt[i] = "$" \o key THEN value ELSE txt[i]]

apply(h, p, key, value) ==
  LET c == clone(h, p, FALSE)
  IN [c EXCEPT !.pipes[c.ret].text = safe_substitute(h.pipes[p].text, key, value)]

\* the overlay is merged on self, no clone is made
with_in_place(h, p, ps) ==
  IF h.pipes[p].params # None
    THEN [h EXCEPT !.pipes[p].params = Some(merge_with(h.pipes[p].params[1], Some(ps))),
                   !.ret = p]
  ELSE [h EXCEPT !.pipes[p].params = Some(ps), !.ret = p]

\* with_: the first overlay is stored on self, a later one on a clone
with_(h, p, ps) ==
  IF h.pipes[p].params # None
    THEN LET new == clone(h, p, FALSE)
         IN [new EXCEPT !.pipes[new.ret].params = Some(merge_with(h.pipes[p].params[1], Some(ps)))]
  ELSE [h EXCEPT !.pipes[p].params = Some(ps), !.ret = p]

\* self.metadata.update(kwargs)
meta(h, p, keys) == [h EXCEPT !.pipes[p].metadata = @ \cup keys, !.ret = p]

\* for callback in callbacks: append unless it is already in the list
RECURSIVE watch_loop(_, _, _)
watch_loop(list, callbacks, allow_duplicates) ==
  IF callbacks = <<>> THEN list
  ELSE watch_loop(IF allow_duplicates \/ ~(\E k \in 1..Len(list) : list[k] = callbacks[1])
                    THEN Append(list, callbacks[1]) ELSE list,
                  Tail(callbacks), allow_duplicates)

\* every callback is appended, whether registered or not
watch_unchecked(h, p, callbacks, allow_duplicates) ==
  [h EXCEPT !.lists[h.pipes[p].watch_callbacks] = @ \o callbacks, !.ret = p]

\* watch(*callbacks, allow_duplicates): the list object the pipeline refers to
\* is extended in place.
watch(h, p, callbacks, allow_duplicates) ==
  [h EXCEPT !.lists[h.pipes[p].watch_callbacks] = watch_loop(@, callbacks, allow_duplicates),
            !.ret = p]

then(h, p, callback) == [h EXCEPT !.pipes[p].then_callbacks = Append(@, callback), !.ret = p]

map(h, p, callback) == [h EXCEPT !.pipes[p].map_callbacks = Append(@, callback), !.ret = p]

until(h, p, callback, use_all_text, max_rounds) ==
  [h EXCEPT !.pipes[p].until_callbacks =
              Append(@, [callback |-> callback, use_all_text |-> use_all_text,
                         max_rounds |-> max_rounds]),
            !.ret = p]

\* until_parsed_as: self.until_types += types, and the parse validator is
\* appended unless an entry equal to self._until_parse_callback is registered
until_parsed_as(h, p, types, use_all_text, max_rounds) ==
  LET cbs == h.pipes[p].until_callbacks
      typed == [h EXCEPT !.pipes[p].until_types = @ \o types, !.ret = p]
  IN IF \E k \in 1..Len(cbs) : cbs[k].callback = ParseCallback(p) THEN typed
     ELSE until(typed, p, ParseCallback(p), use_all_text, max_rounds)

\* One builder call on pipeline p with the arguments a that leaves the objects
\* as in h.
Call(name, p, a, h) ==
  /\ nops < MaxOps
  /\ Len(h.pipes) <= MaxPipes
  /\ pipes' = h.pipes
  /\ lists' = h.lists
  /\ op' = Some([name |-> name, self |-> p, args |-> a, ret |-> h.ret])
  /\ nops' = nops + 1
  /\ UNCHANGED <<text, params, until_callbacks, then_callbacks, map_callbacks,
                 watch_callbacks, args, pc, states, pending_states, to_watch_states,
                 completions, post_idx, result, error, uuid, calls, inbound, verdicts,
                 watch_log, post_log, post_ret, other>>

Pipes == 1..Len(pipes)
RecordTypes == {"A", "B"}

\* The callbacks of one call of watch.
WatchArgs == {<<1>>, <<2>>, <<2, 1>>, <<1, 1>>}

\* The arguments of a call that the properties read: those of watch and with_.
\* A call that has none of them records the defaults.
Args(callbacks, allow_duplicates, ps) ==
  [callbacks |-> callbacks, allow_duplicates |-> allow_duplicates, params |-> ps]
NoArgs == Args(<<>>, FALSE, GenerateParams)

Call_with_ ==
  \E p \in Pipes, ps \in {BaseParams, OverParams} :
    Call("with_", p, Args(<<>>, FALSE, ps), with_(Heap, p, ps))
Call_watch ==
  \E p \in Pipes, callbacks \in WatchArgs, allow_duplicates \in BOOLEAN :
    Call("watch", p, Args(callbacks, allow_duplicates, GenerateParams),
         watch(Heap, p, callbacks, allow_duplicates))
Call_then == \E p \in Pipes : Call("then", p, NoArgs, then(Heap, p, 1))
Call_map == \E p \in Pipes : Call("map", p, NoArgs, map(Heap, p, 1))
Call_add == \E p \in Pipes : Call("add", p, NoArgs, add(Heap, p, <<"a">>))
Call_fork == \E p \in Pipes : Call("fork", p, NoArgs, fork(Heap, p, <<"a">>))
Call_clone ==
  \E p \in Pipes, only_text \in BOOLEAN :
    Call("clone", p, NoArgs, clone(Heap, p, only_text))
Call_meta == \E p \in Pipes : Call("meta", p, NoArgs, meta(Heap, p, {"k"}))
Call_apply == \E p \in Pipes : Call("apply", p, NoArgs, apply(Heap, p, "x", "v"))
Call_until ==
  \E p \in Pipes : Call("until", p, NoArgs, until(Heap, p, PlainCallback(1), FALSE, 1))
Call_until_parsed_as ==
  \E p \in Pipes, type \in RecordTypes :
    Call("until_parsed_as", p, NoArgs, until_parsed_as(Heap, p, <<type>>, FALSE, 1))

\* A generator constructs the first pipeline and hands it its own list of Watch
\* callbacks, which is empty or holds one callback; no run is started.
InitBuild ==
  /\ text = SeedText
  /\ params = None
  /\ until_callbacks = <<>> /\ then_callbacks = <<>> /\ map_callbacks = <<>>
  /\ watch_callbacks = <<>>
  /\ mode = "run" /\ many = <<None>>
  /\ include_failed = FALSE /\ skip_failed = FALSE /\ params_arg = None
  /\ InitRun
  /\ Alone
  /\ \E ws \in {<<>>, <<1>>}, ps \in {None, Some(BaseParams)} :
       LET h == __init__([pipes |-> <<>>, lists |-> <<ws>>, ret |-> 0],
                         <<"p", "$x">>, ps, Some(1))
       IN pipes = h.pipes /\ lists = h.lists
  /\ op = None /\ nops = 0

NextBuild ==
  \/ Call_with_
  \/ Call_watch
  \/ Call_then
  \/ Call_map
  \/ Call_add
  \/ Call_fork
  \/ Call_clone
  \/ Call_meta
  \/ Call_apply
  \/ Call_until
  \/ Call_until_parsed_as

SpecBuild == InitBuild /\ [][NextBuild]_vars

(* ---------------------------------------------------------------------- *)
(* Properties                                                              *)
(* ---------------------------------------------------------------------- *)
Requests == 1..Len(states)

\* Number of backend calls in which request i was submitted.
rounds_of(i) ==
  Cardinality({c \in 1..Len(calls) : \E j \in 1..Len(calls[c]) : calls[c][j].request = i})

\* Some validator returned retry for the last chunk of request i.
AnyRetry(i) == verdicts[i] # None /\ \E j \in 1..Len(verdicts[i][1]) : verdicts[i][1][j]

\* Every validator accepted the last chunk of request i.
AllAccept(i) == verdicts[i] # None /\ \A j \in 1..Len(verdicts[i][1]) : ~verdicts[i][1][j]

Finalized(i) == states[i].processor.pos = "returned"
Exhausted(i) == states[i].processor.pos = "exhausted"
Retrying(i) == states[i].processor.pos = "yield" /\ verdicts[i] # None

\* C1: with one or more Until validators, a request whose last chunk some
\* validator (at any position) rejected is never finalized on that chunk: it
\* waits for another round, or it is exhausted because the ceiling is reached.
C1_AnyRetryBlocksFinalize ==
  \A i \in Requests :
    (until_callbacks # <<>> /\ AnyRetry(i)) =>
       /\ ~Finalized(i)
       /\ Exhausted(i) => states[i].processor.current_round >= lowest_max_rounds

\* C2: a request is never submitted in more backend rounds than the minimum
\* max_rounds over the registered validators.
C2_RoundsWithinLowest ==
  until_callbacks # <<>> =>
    /\ Len(calls) <= lowest_max_rounds
    /\ \A i \in 1..K : rounds_of(i) <= lowest_max_rounds

\* The shared ceiling is reached under two validators with different max_rounds.
C2_Witness ==
  /\ Len(until_callbacks) >= 2
  /\ \E j \in 1..Len(until_callbacks) : until_callbacks[j].max_rounds > lowest_max_rounds
  /\ lowest_max_rounds >= 1
  /\ \E i \in Requests : Exhausted(i) /\ rounds_of(i) = lowest_max_rounds

\* C3: with ceiling m >= 1, a request whose chunk all validators accept at round r
\* is submitted in exactly r rounds and is finalized with failed = false; a request
\* whose every chunk was rejected by some validator is submitted in exactly m
\* rounds and is exhausted.
C3_RoundsUntilAccept ==
  \A i \in Requests :
    (until_callbacks # <<>> /\ lowest_max_rounds >= 1 /\ verdicts[i] # None) =>
       /\ AllAccept(i) =>
            /\ Finalized(i)
            /\ rounds_of(i) = states[i].processor.current_round
            /\ rounds_of(i) <= lowest_max_rounds
            /\ states[i].completion # None => ~states[i].completion[1].failed
       /\ (AnyRetry(i) /\ states[i].processor.pos # "yield") =>
            /\ Exhausted(i)
            /\ rounds_of(i) = lowest_max_rounds

\* C4: with no Until validator there is exactly one backend round, every request
\* is finalized on the text the backend returned for it, with failed = false.
C4_NoValidators ==
  until_callbacks = <<>> =>
    /\ Len(calls) <= 1
    /\ pc \in {"watch", "returned"} =>
         /\ Len(calls) = 1
         /\ pending_states = <<>>
         /\ \A i \in 1..K :
              /\ rounds_of(i) = 1
              /\ states[i].completion # None
              /\ states[i].completion[1].generated = inbound[i][1]
              /\ ~states[i].completion[1].failed
    /\ pc = "returned" =>
         LET out == IF mode = "run" THEN result ELSE result[1]
         IN /\ Len(out) = K
            /\ \A i \in 1..K : out[i].generated = inbound[i][1] /\ ~out[i].failed

C4_Witness ==
  /\ until_callbacks = <<>>
  /\ pc = "returned"
  /\ K >= 2
  /\ result[1][2].generated = Chunk(1, 2)

\* The value of the run as a list: run returns chats[0], the others the list.
Returned == IF mode = "run" THEN result ELSE result[1]

\* C5: a batch run that returns without skip_failed (no Map callback registered)
\* returns exactly K records, the i-th built from the last response the backend
\* gave for the i-th request and carrying that request's parameters.
C5_BatchOrder ==
  (pc = "returned" /\ mode # "run" /\ ~skip_failed /\ map_callbacks = <<>>) =>
     /\ Len(result[1]) = K
     /\ \A i \in 1..K :
          /\ result[1][i].generated = inbound[i][1]
          /\ result[1][i].params = states[i].params

\* A later request finished in an earlier round than the first one.
C5_Witness ==
  /\ pc = "returned" /\ mode = "run_batch" /\ ~skip_failed
  /\ K >= 2
  /\ rounds_of(1) > rounds_of(2)
  /\ result[1][1].uuid > result[1][2].uuid

\* Number of times the record of request i was handed to the Watch stage.
deliveries(i) ==
  Cardinality({wj \in (1..Len(watch_log)) \X (1..K) :
                 /\ wj[2] <= Len(watch_log[wj[1]])
                 /\ watch_log[wj[1]][wj[2]].uuid = states[i].completion[1].uuid})

\* C6: every request that has a record (finalized, or exhausted under
\* skip_failed / include_failed) had that record handed to the Watch stage
\* exactly once, however the run ends.
C6_WatchedExactlyOnce ==
  \A i \in Requests : states[i].completion # None => deliveries(i) = 1

C8_FlagConflict ==
  (skip_failed /\ include_failed /\ pc # "init") =>
     /\ pc = "raised" /\ error = "ValueError" /\ result = None
     /\ calls = <<>> /\ watch_log = <<>> /\ post_log = <<>>

C8_Witness ==
  /\ skip_failed /\ include_failed /\ pc = "raised"
  /\ map_callbacks # <<>> /\ then_callbacks # <<>> /\ watch_callbacks # <<>>

\* C9: an overlay list whose length differs from the number of requests makes
\* the run raise the configuration error with no backend call issued and no
\* request state created.
C9_OverlayMismatch ==
  (params_arg # None /\ Len(params_arg[1]) # K /\ pc # "init") =>
     /\ pc = "raised" /\ error = "ValueError" /\ result = None
     /\ calls = <<>> /\ states = <<>> /\ watch_log = <<>> /\ post_log = <<>>

\* A batch of two texts called with an overlay list of one entry.
C9_Witness ==
  /\ pc = "raised" /\ mode = "run_batch"
  /\ params_arg # None /\ Len(params_arg[1]) = 1 /\ K = 2

\* C10: once the batched backend call has raised, the run has ended with that
\* error: no further backend call, no returned list, no Map or Then invocation.
C10_BackendErrorAborts ==
  error = "BackendError" =>
     /\ pc = "raised" /\ result = None /\ post_log = <<>>
     /\ pending_states # <<>>

\* The call of the second round raises after a sibling finished in the first.
C10_Witness ==
  /\ error = "BackendError" /\ Len(calls) = 2
  /\ map_callbacks # <<>> /\ then_callbacks # <<>>
  /\ \E i \in Requests : Finalized(i)

\* Requests delivered to Watch in a round before round c.
finished_before(c) ==
  {i \in Requests : /\ states[i].completion # None
                    /\ \E w \in 1..Len(watch_log) :
                         /\ w < c
                         /\ \E j \in 1..Len(watch_log[w]) :
                              watch_log[w][j] = states[i].completion[1]}

\* The run is inside a round: its backend call is issued and the round's Watch
\* delivery has not started.
InRound == pc = "generate" \/ error \in {"BackendError", "CompletionExhaustedMaxRoundsError"}

\* C11: every round issues exactly one backend call; the call carries exactly
\* the requests that have not finished in an earlier round, in input order, each
\* with the request text and the effective parameters it had in the first call;
\* the size of the calls never increases.
C11_OneCallPerRound ==
  /\ Len(calls) = Len(watch_log) + (IF InRound THEN 1 ELSE 0)
  /\ \A c \in 1..Len(calls) :
       /\ {calls[c][j].request : j \in 1..Len(calls[c])} = Requests \ finished_before(c)
       /\ \A j \in 1..(Len(calls[c]) - 1) : calls[c][j].request < calls[c][j + 1].request
       /\ \A j \in 1..Len(calls[c]) :
            /\ \E k \in 1..Len(calls[1]) : calls[1][k] = calls[c][j]
            /\ calls[c][j].text = submit_text(states[calls[c][j].request])
            /\ calls[c][j].params = states[calls[c][j].request].params
       /\ c > 1 => Len(calls[c]) <= Len(calls[c - 1])

\* A batch of two requests with an overlay: the first finishes in round one and
\* the second call carries only the second request, with its merged parameters.
C11_Witness ==
  /\ mode = "run_batch" /\ params # None /\ params_arg # None
  /\ Len(calls) = 2 /\ Len(calls[1]) = 2 /\ Len(calls[2]) = 1
  /\ calls[2][1].request = 2
  /\ calls[2][1].params # calls[1][1].params

\* Number of Map invocations made so far.
maps_invoked == Cardinality({e \in 1..Len(post_log) : post_log[e].kind = "map"})

\* C12: the Map callbacks run one at a time in registration order; the first one
\* receives the finished list, every later one receives exactly the list the
\* previous Map returned, and every Map has returned before any Then is invoked.
C12_MapChain ==
  /\ \A e \in 1..Len(post_log) :
       IF e <= Len(map_callbacks)
         THEN post_log[e].kind = "map" /\ post_log[e].cb = map_callbacks[e]
       ELSE post_log[e].kind = "then"
  /\ pc = "map" => post_idx = Len(post_log) /\ maps_invoked = post_idx
  /\ (map_callbacks # <<>> /\ post_log # <<>>) => post_log[1].arg = collect(states)
  /\ (post_ret # None /\ post_ret[1].kind = "map") =>
       LET e == CHOOSE k \in 1..Len(map_callbacks) : map_callbacks[k] = post_ret[1].cb
       IN /\ maps_invoked = (IF e < Len(map_callbacks) THEN e + 1 ELSE e)
          /\ IF e < Len(post_log) THEN post_log[e + 1].arg = post_ret[1].ret
             ELSE /\ then_callbacks = <<>>
                  /\ result = IF mode # "run" THEN Some(post_ret[1].ret)
                              ELSE IF post_ret[1].ret = <<>> THEN None
                              ELSE Some(post_ret[1].ret[1])
  /\ (post_log # <<>> /\ post_log[Len(post_log)].kind = "then") =>
       /\ maps_invoked = Len(map_callbacks)
       /\ map_callbacks # <<>> =>
            (post_ret # None /\ (post_ret[1].kind = "then" \/ post_ret[1].cb = Len(map_callbacks)))

\* Two Map callbacks that both changed the list, and the first Then callback
\* invoked on what the second Map returned.
C12_Witness ==
  /\ Len(map_callbacks) = 2 /\ Len(post_log) = 3 /\ pc = "then"
  /\ post_log[2].arg # post_log[1].arg
  /\ post_log[3].arg # post_log[2].arg
  /\ post_log[3].arg # post_log[1].arg

\* C13: when a Then callback has returned for every record of the list, each
\* position holds the replacement the callback returned for it (whatever that
\* record is, an empty one included) or, where it returned nothing, the record
\* it was given; the list the next Then callback or the caller receives has the
\* same length.
C13_ThenReplacement ==
  (post_ret # None /\ post_ret[1].kind = "then") =>
    LET e == Len(map_callbacks) +
               (CHOOSE k \in 1..Len(then_callbacks) : then_callbacks[k] = post_ret[1].cb)
        arg == post_log[e].arg
        new == post_ret[1].ret
        after == IF e < Len(post_log) THEN post_log[e + 1].arg ELSE completions
    IN /\ Len(after) = Len(arg)
       /\ mode # "run" /\ e = Len(post_log) => result = Some(after)
       /\ \A i \in 1..Len(arg) :
            after[i] = IF new[i] = None THEN arg[i] ELSE new[i][1]

\* What pipeline p holds: its callback lists, its metadata and its parameters.
view(p) ==
  [until_callbacks |-> pipes[p].until_callbacks,
   then_callbacks |-> pipes[p].then_callbacks,
   map_callbacks |-> pipes[p].map_callbacks,
   watch_callbacks |-> lists[pipes[p].watch_callbacks],
   metadata |-> pipes[p].metadata,
   params |-> pipes[p].params]

Registrations == {"until", "until_parsed_as", "then", "map", "watch"}

\* C14: a registration (until, until_parsed_as, then, map, watch) made on one
\* pipeline leaves the Until, Then, Map and Watch lists, the metadata and the
\* parameters of every other pipeline as they were, clones and their sources
\* included.
C14_CloneIndependence ==
  [][(op' # op /\ op'[1].name \in Registrations) =>
       \A p \in Pipes : p # op'[1].self => view(p)' = view(p)]_vars

\* The entries of pipeline p's Until list that hold a parse validator.
parse_entries(p) ==
  {k \in 1..Len(pipes[p].until_callbacks) :
     pipes[p].until_callbacks[k].callback[1] = "_until_parse_callback"}

\* The record types the parse validator of entry k of pipeline p checks: the
\* until_types of the pipeline the method is bound to.
checked_types(p, k) ==
  LET owner == pipes[p].until_callbacks[k].callback[2]
  IN {pipes[owner].until_types[t] : t \in 1..Len(pipes[owner].until_types)}

\* C15: the Until list of every pipeline holds at most one parse validator, and
\* that validator checks every record type registered on the pipeline.
C15_OneParseValidator ==
  \A p \in Pipes :
    /\ Cardinality(parse_entries(p)) <= 1
    /\ pipes[p].until_types # <<>> => parse_entries(p) # {}
    /\ \A k \in parse_entries(p) :
         {pipes[p].until_types[t] : t \in 1..Len(pipes[p].until_types)} \subseteq checked_types(p, k)

\* The response the backend gave request i in the last call that carried it.
last_chunk(i) ==
  LET c == CHOOSE c \in 1..Len(calls) :
             /\ \E j \in 1..Len(calls[c]) : calls[c][j].request = i
             /\ \A d \in (c + 1)..Len(calls) :
                  \A j \in 1..Len(calls[d]) : calls[d][j].request # i
      j == CHOOSE j \in 1..Len(calls[c]) : calls[c][j].request = i
  IN Chunk(c, j)

\* C16: a record the executor created is marked failed exactly when its request
\* ended by exhausting the rounds, and its generated text is the response the
\* backend gave the request in the last round in which it was submitted.
C16_RecordFields ==
  \A i \in Requests :
    /\ states[i].completion # None =>
         /\ states[i].completion[1].failed <=> Exhausted(i)
         /\ ~states[i].completion[1].failed <=> Finalized(i)
         /\ states[i].completion[1].generated = last_chunk(i)
    /\ Finalized(i) => states[i].completion # None
    /\ (Exhausted(i) /\ (skip_failed \/ include_failed)) => states[i].completion # None

\* A failed record made in round two beside a record that finished in round one.
C16_Witness ==
  /\ Len(states) = 2 /\ Len(calls) = 2
  /\ states[1].completion # None /\ states[2].completion # None
  /\ states[1].completion[1].failed /\ states[1].completion[1].generated = Chunk(2, 1)
  /\ ~states[2].completion[1].failed /\ states[2].completion[1].generated = Chunk(1, 2)

\* Request i is carried by backend call c.
submitted(i, c) == \E j \in 1..Len(calls[c]) : calls[c][j].request = i

\* Request i is waiting for the response of the call in flight.
awaiting(i) == InRound /\ calls # <<>> /\ submitted(i, Len(calls))

\* The validator that decides returned retry for the last response request i
\* was validated on.
decided_retry(i) ==
  until_callbacks # <<>> /\ verdicts[i] # None /\ verdicts[i][1][Len(until_callbacks)]

\* C17: with skip_failed or include_failed no request's exhaustion ends the run
\* or touches another request.  What happens to a request is fixed by its own
\* verdicts and responses alone, as it would be in a run without the others: it
\* is submitted in every round from the first until its own validator accepts
\* or the ceiling is reached, it ends finished or failed accordingly, and its
\* record carries its own last response.
C17_SiblingsUnaffected ==
  (skip_failed \/ include_failed) =>
    /\ error # "CompletionExhaustedMaxRoundsError"
    /\ \A i \in Requests :
         LET r == rounds_of(i)
             record == states[i].completion
         IN /\ \A c \in 1..Len(calls) : submitted(i, c) <=> c <= r
            /\ r <= lowest_max_rounds
            /\ IF awaiting(i)
                 THEN record = None /\ (r > 1 => decided_retry(i))
               ELSE IF calls = <<>> THEN record = None
               ELSE /\ verdicts[i] # None
                    /\ IF ~decided_retry(i)
                         THEN record # None /\ ~record[1].failed
                       ELSE IF r = lowest_max_rounds
                         THEN record # None /\ record[1].failed
                       ELSE record = None /\ r = Len(calls)
                    /\ record # None => record[1].generated = last_chunk(i)

\* Two requests under skip_failed or include_failed: the first is exhausted in
\* round two, the second is validated after it in the same round and finishes.
C17_Witness ==
  /\ (skip_failed \/ include_failed)
  /\ Len(states) = 2 /\ Len(calls) = 2 /\ Len(calls[2]) = 2
  /\ Exhausted(1) /\ Finalized(2)
  /\ ~states[2].completion[1].failed
  /\ states[2].completion[1].generated = Chunk(2, 2)

\* The Watch notifications that delivered the record of request i.
notified(i) ==
  {w \in 1..Len(watch_log) :
     \E j \in 1..Len(watch_log[w]) : watch_log[w][j] = states[i].completion[1]}

\* The request whose record is rec.
request_of(rec) == CHOOSE i \in Requests : states[i].completion = Some(rec)

\* C18: once the backend call of a later round is issued, or a Map or Then
\* callback is invoked, every record that finished before has been delivered to
\* Watch, in the notification of its own round, and that notification has
\* completed; while a notification runs no call is issued and no Map or Then
\* callback is invoked; what Watch receives is the record as the executor made
\* it.
C18_WatchBeforeNextRound ==
  /\ \A i \in Requests :
       (states[i].completion # None /\ (rounds_of(i) < Len(calls) \/ post_log # <<>>)) =>
         /\ states[i].watched
         /\ notified(i) = {rounds_of(i)}
  /\ pc = "watch" => Len(calls) = Len(watch_log) /\ post_log = <<>>
  /\ \A w \in 1..Len(watch_log) : \A j \in 1..Len(watch_log[w]) :
       \E i \in Requests :
         /\ states[i].completion = Some(watch_log[w][j])
         /\ watch_log[w][j].generated = last_chunk(i)

\* The first request finished in round one and the second in round two, each
\* delivered in its round; a Then callback replaced the first record afterwards.
C18_Witness ==
  /\ Len(calls) = 2 /\ Len(watch_log) = 2 /\ pc = "returned" /\ mode # "run"
  /\ watch_log[1] = <<states[1].completion[1]>>
  /\ watch_log[2] = <<states[2].completion[1]>>
  /\ result[1][1] # watch_log[1][1]

\* C19: of two delivered records the one that finished in the earlier round is
\* in the earlier Watch notification, whatever their input positions; the
\* records of one notification are in input order.
C19_WatchFinishOrder ==
  /\ \A i \in Requests, k \in Requests :
       (states[i].completion # None /\ states[k].completion # None
          /\ rounds_of(i) < rounds_of(k)) =>
         \A w \in notified(i), x \in notified(k) : w < x
  /\ \A w \in 1..Len(watch_log) : \A j \in 1..(Len(watch_log[w]) - 1) :
       request_of(watch_log[w][j]) < request_of(watch_log[w][j + 1])

\* The request at input position two finished first and was delivered first.
C19_Witness ==
  /\ Len(states) = 2 /\ Len(watch_log) = 2
  /\ states[1].completion # None /\ states[2].completion # None
  /\ watch_log[1] = <<states[2].completion[1]>>
  /\ watch_log[2] = <<states[1].completion[1]>>

\* The list the executor hands to _post_run: the argument of the first Map or
\* Then invocation, or the returned list when no callback is registered.
handed ==
  IF post_log # <<>> THEN Some(post_log[1].arg)
  ELSE IF pc = "returned" /\ mode # "run" THEN result
  ELSE None

\* C20: with skip_failed the list handed to post-processing is made when no
\* request is pending and holds exactly the records that are not failed, in
\* input order; no Map or Then callback receives a failed record, and every
\* failed record has been delivered to Watch.
C20_SkipFailedFilter ==
  (skip_failed /\ handed # None) =>
    LET list == handed[1] IN
    /\ pending_states = <<>>
    /\ \A i \in Requests : states[i].completion # None
    /\ \A k \in 1..Len(list) :
         /\ ~list[k].failed
         /\ \E i \in Requests : states[i].completion = Some(list[k])
    /\ \A k \in 1..(Len(list) - 1) : request_of(list[k]) < request_of(list[k + 1])
    /\ \A i \in Requests :
         IF states[i].completion[1].failed THEN notified(i) # {}
         ELSE \E k \in 1..Len(list) : list[k] = states[i].completion[1]
    /\ \A e \in 1..Len(post_log) : \A k \in 1..Len(post_log[e].arg) :
         ~post_log[e].arg[k].failed

\* The first of two requests is exhausted and the second finishes: Watch has
\* received the failed record, the Map callback only the other one.
C20_Witness ==
  /\ skip_failed /\ Len(states) = 2
  /\ Exhausted(1) /\ Finalized(2)
  /\ post_log # <<>> /\ post_log[1].kind = "map"
  /\ post_log[1].arg = <<states[2].completion[1]>>
  /\ notified(1) # {}

\* C21: the invocations of a Then callback are made for every record of the
\* list at once; while one of them has not returned no later Then callback is
\* invoked; the callbacks are invoked in registration order, each on the whole
\* list.
C21_ThenStages ==
  /\ \A e \in 1..Len(post_log) :
       /\ post_log[e].kind = "then"
       /\ post_log[e].cb = then_callbacks[e]
       /\ Len(post_log[e].arg) = Len(collect(states))
  /\ pc = "then" => post_idx = Len(post_log)
  /\ post_ret # None =>
       /\ post_ret[1].idx \in {Len(post_log), Len(post_log) - 1}
       /\ post_ret[1].done # 1..Len(post_log[post_ret[1].idx].arg) =>
            /\ pc = "then"
            /\ post_ret[1].idx = Len(post_log)
       /\ post_ret[1].idx < Len(post_log) =>
            \A i \in 1..Len(post_log[post_ret[1].idx].arg) : i \in post_ret[1].done
  /\ pc = "returned" =>
       /\ Len(post_log) = Len(then_callbacks)
       /\ post_ret # None /\ post_ret[1].idx = Len(then_callbacks)
       /\ post_ret[1].done = 1..Len(collect(states))

\* The second of two Then callbacks is awaited on two records; the invocation
\* for the second record has returned, the one for the first has not.
C21_Witness ==
  /\ Len(then_callbacks) = 2 /\ Len(completions) = 2
  /\ pc = "then" /\ post_idx = 2 /\ Len(post_log) = 2
  /\ post_ret # None /\ post_ret[1].idx = 2 /\ post_ret[1].done = {2}

\* What holds of a run that is executed alone (C11, C16, C18, C19 and the list
\* it hands on and returns): before it starts it has no Run State; its backend
\* calls carry exactly its own unfinished requests, its records carry its own
\* responses, Watch receives its own records round by round, and without
\* skip_failed and Map callbacks it returns one record per request of its own,
\* in input order.
AsAlone ==
  /\ pc = "init" => states = <<>> /\ calls = <<>> /\ watch_log = <<>>
  /\ C11_OneCallPerRound
  /\ C16_RecordFields
  /\ C18_WatchBeforeNextRound
  /\ C19_WatchFinishOrder
  /\ (handed # None /\ ~skip_failed /\ map_callbacks = <<>>) =>
       handed[1] = [i \in 1..Len(states) |-> states[i].completion[1]]
  /\ (pc = "returned" /\ mode # "run" /\ ~skip_failed /\ map_callbacks = <<>>) =>
       /\ Len(result[1]) = Len(states)
       /\ \A i \in 1..Len(states) : result[1][i].uuid = states[i].completion[1].uuid

\* C22: a run never writes the configuration of the pipeline, and when two runs
\* of one pipeline are interleaved at their awaits, the run in progress is at
\* every moment as a run executed alone is: same backend calls, same records,
\* same returned list.
C22_InterleavedRuns ==
  /\ []AsAlone
  /\ [][UNCHANGED <<text, params, until_callbacks, then_callbacks, map_callbacks,
                    watch_callbacks>>]_vars

\* Both runs are in their second round, with different requests pending.
C22_Witness ==
  /\ other # None
  /\ pc = "generate" /\ other[1].pc = "generate"
  /\ Len(calls) = 2 /\ Len(other[1].calls) = 2
  /\ pending_states = <<1>> /\ other[1].pending_states = <<2>>

\* The run is over: it has returned or raised.
Terminated == pc \in {"returned", "raised"}

\* C23: a run whose backend calls and callbacks return is eventually over; when
\* the lowest max_rounds is at least 1 it issues at most max(1, lowest
\* max_rounds) backend calls, and when it returns no request is pending.
C23_Terminates ==
  /\ <>Terminated
  /\ [](lowest_max_rounds >= 1 => Len(calls) <= lowest_max_rounds)
  /\ [](pc \in {"map", "then", "returned"} => pending_states = <<>>)

\* A batch that used every round the ceiling allows and returned.
C23_Witness ==
  /\ until_callbacks # <<>> /\ lowest_max_rounds = MaxRounds
  /\ Len(states) = 2 /\ Len(calls) = lowest_max_rounds
  /\ pc = "returned" /\ pending_states = <<>>

\* The text the executor submitted to the backend for request i (the same in
\* every round that carried it).
submitted_text(i) ==
  LET c == CHOOSE c \in 1..Len(calls) : submitted(i, c)
      j == CHOOSE j \in 1..Len(calls[c]) : calls[c][j].request = i
  IN calls[c][j].text

\* C24: every record a batch run over a list of input texts returns carries as
\* its input text the text submitted to the backend for its own request (the
\* seed text followed by the item), so records of different items differ in it.
C24_BatchInputText ==
  (mode = "run_batch" /\ pc = "returned") =>
    /\ \A i \in Requests :
         states[i].completion # None =>
           /\ states[i].completion[1].text = submitted_text(i)
           /\ states[i].completion[1].text = text \o many[i]
    /\ \A i, k \in Requests :
         (states[i].completion # None /\ states[k].completion # None /\ many[i] # many[k]) =>
           states[i].completion[1].text # states[k].completion[1].text

\* The calls the for loop of _process made to the validators when the chunk of
\* the last round was sent to request i: one per entry of until_callbacks, in
\* order ("continue" only moves on to the next entry), each with its argument
\* and the verdict it returned.
until_invocations(i) ==
  IF verdicts[i] = None \/ inbound[i] = None THEN <<>>
  ELSE [j \in 1..Len(until_callbacks) |->
          [callback |-> until_callbacks[j].callback,
           arg |-> until_arg(until_callbacks[j], inbound[i][1]),
           ret |-> verdicts[i][1][j]]]

\* C25: in every round of every request each registered validator is invoked
\* exactly once whatever the validators before it returned; it receives the
\* chunk alone when its use_all_text flag is off, and the text submitted to the
\* backend for the request followed by the chunk when the flag is on.
C25_ValidatorArguments ==
  \A i \in Requests :
    verdicts[i] # None =>
      /\ Len(until_invocations(i)) = Len(until_callbacks)
      /\ \A j \in 1..Len(until_callbacks) :
           /\ until_invocations(i)[j].callback = until_callbacks[j].callback
           /\ until_invocations(i)[j].arg =
                IF until_callbacks[j].use_all_text
                  THEN submitted_text(i) \o inbound[i][1]
                  ELSE inbound[i][1]

\* No value occurs twice in the sequence.
NoDuplicates(list) == \A a, b \in 1..Len(list) : list[a] = list[b] => a = b

\* The members of the sequence.
Members(list) == {list[k] : k \in 1..Len(list)}

\* The Watch list of pipeline p.
watch_list(p) == lists[pipes[p].watch_callbacks]

\* C26: a watch() call made without allow_duplicates on a pipeline whose Watch
\* list holds no callback twice leaves a list that holds no callback twice,
\* keeps the callbacks that were registered where they were, and adds exactly
\* the callbacks that were missing, in the order of the call; by induction the
\* same holds after any sequence of such calls.  A call with allow_duplicates
\* appends every callback it is given.
C26_WatchDedup ==
  [][(nops' # nops /\ op'[1].name = "watch") =>
       LET p == op'[1].self
           callbacks == op'[1].args.callbacks
           allow_duplicates == op'[1].args.allow_duplicates
           old == lists[pipes[p].watch_callbacks]
           new == lists'[pipes'[p].watch_callbacks]
           added == SubSeq(new, Len(old) + 1, Len(new))
       IN /\ op'[1].ret = p
          /\ Len(new) >= Len(old) /\ SubSeq(new, 1, Len(old)) = old
          /\ allow_duplicates => added = callbacks
          /\ (~allow_duplicates /\ NoDuplicates(old)) =>
               /\ NoDuplicates(new)
               /\ Members(new) = Members(old) \cup Members(callbacks)
               /\ \A a, b \in 1..Len(added) :
                    a < b =>
                      \E x, y \in 1..Len(callbacks) :
                        x < y /\ callbacks[x] = added[a] /\ callbacks[y] = added[b]]_vars

\* watch(2, 1) without allow_duplicates on a pipeline that had callback 1
\* registered: only callback 2 was added, behind callback 1.
C26_Witness ==
  /\ op # None /\ op[1].name = "watch"
  /\ op[1].args.callbacks = <<2, 1>> /\ ~op[1].args.allow_duplicates
  /\ watch_list(op[1].self) = <<1, 2>>

\* C27: with_(params) on a pipeline without an overlay stores params on that
\* pipeline and returns it, and no pipeline is created; on a pipeline with an
\* overlay it returns a new pipeline whose overlay has the fields set in params
\* and, for the others, the fields of the old overlay, and the overlay of the
\* pipeline it was called on stays as it was.
C27_WithOverlay ==
  [][(nops' # nops /\ op'[1].name = "with_") =>
       LET p == op'[1].self
           ps == op'[1].args.params
           ret == op'[1].ret
       IN IF pipes[p].params = None
            THEN /\ ret = p
                 /\ Len(pipes') = Len(pipes)
                 /\ pipes'[p].params = Some(ps)
            ELSE /\ ret = Len(pipes) + 1 /\ Len(pipes') = Len(pipes) + 1
                 /\ pipes'[p].params = pipes[p].params
                 /\ pipes'[ret].params # None
                 /\ \A f \in Fields :
                      pipes'[ret].params[1][f] =
                        IF ps[f] # 0 THEN ps[f] ELSE pipes[p].params[1][f]]_vars

\* with_(OverParams) on a pipeline whose overlay is BaseParams: the new pipeline
\* has the temperature of the call and the max_tokens of the old overlay.
C27_Witness ==
  /\ op # None /\ op[1].name = "with_" /\ op[1].args.params = OverParams
  /\ op[1].ret # op[1].self
  /\ pipes[op[1].self].params = Some(BaseParams)
  /\ pipes[op[1].ret].params = Some([temperature |-> 2, max_tokens |-> 1])

\* The backend rounds whose responses have been routed to the processors: every
\* call but the one in flight or the one the backend failed.
rounds_routed ==
  IF pc = "generate" \/ error = "BackendError" THEN Len(calls) - 1 ELSE Len(calls)

\* The records of the requests that finished (or were recorded as failed) on
\* the responses of round r.
finished_in(r) ==
  {states[i].completion[1] : i \in {k \in Requests : states[k].completion # None
                                                      /\ rounds_of(k) = r}}

\* C28: after every backend round the Watch stage is invoked exactly once, with
\* exactly the records that finished in that round, each once; after a round in
\* which no request finished it is invoked with an empty list.
C28_WatchEveryRound ==
  /\ Len(watch_log) = rounds_routed
  /\ \A r \in 1..rounds_routed :
       /\ r <= Len(watch_log)
       /\ Members(watch_log[r]) = finished_in(r)
       /\ Len(watch_log[r]) = Cardinality(finished_in(r))

====
